---- MODULE Spec2Model ----
(***************************************************************************)
(* The persistent entry store of the travel diary                          *)
(* (src/src/components/utilities/permissions.ts, lines 117-327): the entry *)
(* validator, the JSON conversion between the in-memory collection and the *)
(* string kept under StorageKeys.ENTRIES, and the store operations built   *)
(* on AsyncStorage.getItem / setItem / removeItem.                         *)
(*                                                                         *)
(* A JavaScript value is a record whose kind field is the runtime kind of  *)
(* the value; a number carries its value in n, a string in s, and a plain  *)
(* object one value per field the store looks at.  A missing key reads as  *)
(* undefined, as property access does in JavaScript.                       *)
(***************************************************************************)
EXTENDS Integers, Sequences, FiniteSets, TLC

VARIABLES
    storage,    \* the raw value kept by the backend under StorageKeys.ENTRIES
    last,       \* the completed call whose result the caller has yet to take
    tasks,      \* the store calls in flight between two awaits (concurrent use)
    others,     \* the values the backend keeps under the other StorageKeys
    screen      \* the state of the add-entry screen

vars == <<storage, last, tasks, others, screen>>

-----------------------------------------------------------------------------
(* Bounds of the model *)

\* The longest array a call of the model may leave in the store.
MaxEntries == 2

\* How many backend requests of one call may reject.
MaxFaults == 1

\* How many calls each of the two concurrent callers issues, and how many
\* saveTravelEntry calls of the add-entry screen reach saveEntry.
MaxCalls == 1

-----------------------------------------------------------------------------
(* JavaScript values *)

\* A value with no payload the store looks at: undefined, null, an array
\* ("array"), one of the numbers that JSON cannot write, NaN ("nan"),
\* Infinity ("infinity") and -Infinity ("-infinity"), or a value seen only by
\* its kind.
Plain(kind) == [kind |-> kind]

Undefined == Plain("undefined")

Null == Plain("null")

NaN == Plain("nan")

Infinity == Plain("infinity")

NegInfinity == Plain("-infinity")

\* The kinds of the numbers that are not finite.
NonFinite == {"nan", "infinity", "-infinity"}

Num(n) == [kind |-> "number", n |-> n]

Str(s) == [kind |-> "string", s |-> s]

\* typeof, by the kind of the value.
TypeOfKind(kind) ==
    CASE kind = "undefined" -> "undefined"
      [] kind = "null"      -> "object"
      [] kind = "number"    -> "number"
      [] kind = "nan"       -> "number"
      [] kind = "infinity"  -> "number"
      [] kind = "-infinity" -> "number"
      [] kind = "string"    -> "string"
      [] kind = "array"     -> "object"
      [] kind = "object"    -> "object"

\* typeof v
TypeOf(v) == TypeOfKind(v.kind)

\* !v
Falsy(v) ==
    \/ v.kind \in {"undefined", "null", "nan"}
    \/ v = Num(0)
    \/ v = Str("")

\* interface TravelEntry, with the optional fields validateEntry looks at.
FieldNames ==
    {"id", "imageUri", "address", "latitude", "longitude", "createdAt",
     "title", "notes", "tags", "weather"}

\* A plain object as the store sees it: what each field reads as.
Value(kind, id, imageUri, address, latitude, longitude, createdAt, title, notes, tags, weather) ==
    [kind |-> kind, id |-> id, imageUri |-> imageUri, address |-> address,
     latitude |-> latitude, longitude |-> longitude, createdAt |-> createdAt,
     title |-> title, notes |-> notes, tags |-> tags, weather |-> weather]

\* A record with the six required fields of TravelEntry only.
Entry(id, imageUri, address, latitude, longitude, createdAt) ==
    Value("object", id, imageUri, address, latitude, longitude, createdAt,
          Undefined, Undefined, Undefined, Undefined)

\* entry[field.name]: undefined on a value that has no such property.
Field(entry, name) ==
    IF entry.kind # "object" THEN Undefined ELSE
    CASE name = "id"        -> entry.id
      [] name = "imageUri"  -> entry.imageUri
      [] name = "address"   -> entry.address
      [] name = "latitude"  -> entry.latitude
      [] name = "longitude" -> entry.longitude
      [] name = "createdAt" -> entry.createdAt
      [] name = "title"     -> entry.title
      [] name = "notes"     -> entry.notes
      [] name = "tags"      -> entry.tags
      [] name = "weather"   -> entry.weather

-----------------------------------------------------------------------------
(* Entry validator *)

requiredFields ==
    << [name |-> "id",        type |-> "string"],
       [name |-> "imageUri",  type |-> "string"],
       [name |-> "address",   type |-> "string"],
       [name |-> "latitude",  type |-> "number"],
       [name |-> "longitude", type |-> "number"],
       [name |-> "createdAt", type |-> "number"] >>

\* Mutant: a latitude above 90 is rejected (a range check the code has not).
validateEntryRanged(entry) ==
    IF entry.kind \in {"undefined", "null"} \/ TypeOfKind(entry.kind) # "object"
    THEN FALSE
    ELSE IF \E i \in 1..Len(requiredFields) :
                TypeOf(Field(entry, requiredFields[i].name)) # requiredFields[i].type
    THEN FALSE
    ELSE IF entry.latitude.kind = "number" /\ entry.latitude.n > 90 THEN FALSE
    ELSE IF entry.title.kind # "undefined" /\ TypeOf(entry.title) # "string" THEN FALSE
    ELSE IF entry.notes.kind # "undefined" /\ TypeOf(entry.notes) # "string" THEN FALSE
    ELSE IF entry.tags.kind # "undefined" /\ entry.tags.kind # "array" THEN FALSE
    ELSE IF entry.weather.kind # "undefined" /\ TypeOf(entry.weather) # "object" THEN FALSE
    ELSE TRUE

\* Mutant: the loop over requiredFields starts behind id.
validateEntryIdUnchecked(entry) ==
    IF entry.kind \in {"undefined", "null"} \/ TypeOfKind(entry.kind) # "object"
    THEN FALSE
    ELSE IF \E i \in 2..Len(requiredFields) :
                TypeOf(Field(entry, requiredFields[i].name)) # requiredFields[i].type
    THEN FALSE
    ELSE TRUE

validateEntry(entry) ==
    IF entry.kind \in {"undefined", "null"} \/ TypeOfKind(entry.kind) # "object"
    THEN FALSE
    ELSE IF \E i \in 1..Len(requiredFields) :
                TypeOf(Field(entry, requiredFields[i].name)) # requiredFields[i].type
    THEN FALSE
    ELSE IF entry.title.kind # "undefined" /\ TypeOf(entry.title) # "string" THEN FALSE
    ELSE IF entry.notes.kind # "undefined" /\ TypeOf(entry.notes) # "string" THEN FALSE
    ELSE IF entry.tags.kind # "undefined" /\ entry.tags.kind # "array" THEN FALSE
    ELSE IF entry.weather.kind # "undefined" /\ TypeOf(entry.weather) # "object" THEN FALSE
    ELSE TRUE

\* entries: [isArray, items], the decoded value of the stored string.
validateEntries(entries) ==
    IF ~entries.isArray
    THEN FALSE
    ELSE \A i \in 1..Len(entries.items) : validateEntry(entries.items[i])

-----------------------------------------------------------------------------
(* The stored string and its JSON conversion *)

\* What AsyncStorage holds under StorageKeys.ENTRIES: no value ("absent"), the
\* empty string ("empty"), text that is not JSON ("garbage"), JSON text of a
\* value that is not an array ("nonarray"), or JSON text of an array, whose
\* elements are items.
Raw(kind, items) == [kind |-> kind, items |-> items]

Absent == Raw("absent", <<>>)

\* JSON.stringify of one property value: a non-finite number is written as
\* null; an undefined property is left out, so it reads back as undefined.
StringifyField(v) == IF v.kind \in NonFinite THEN Null ELSE v

\* JSON.stringify of one array element.
StringifyItem(e) ==
    IF e.kind \in {"undefined"} \cup NonFinite THEN Null
    ELSE IF e.kind # "object" THEN e
    ELSE Value(e.kind, StringifyField(e.id), StringifyField(e.imageUri),
               StringifyField(e.address), StringifyField(e.latitude),
               StringifyField(e.longitude), StringifyField(e.createdAt),
               StringifyField(e.title), StringifyField(e.notes),
               StringifyField(e.tags), StringifyField(e.weather))

\* JSON.stringify(entries), entries an array.
JSONstringify(entries) ==
    Raw("array", [i \in 1..Len(entries) |-> StringifyItem(entries[i])])

\* JSON.parse(entriesString): throws on text that is not JSON.
JSONparse(raw) ==
    [thrown |-> raw.kind = "garbage", isArray |-> raw.kind = "array", items |-> raw.items]

-----------------------------------------------------------------------------
(* Control flow: what a block of code ends with *)

Return(v) == [thrown |-> FALSE, val |-> v]

Throw == [thrown |-> TRUE, val |-> <<>>]

\* try { body } catch (error) { return sentinel }
Catch(outcome, sentinel) == IF outcome.thrown THEN Return(sentinel) ELSE outcome

-----------------------------------------------------------------------------
(* getEntries *)

\* a === b, a a value decoded from the stored string or held by the store, b
\* a value of the caller: NaN equals nothing, and an array or an object
\* equals only itself, which two values of different origin never are.
StrictEq(a, b) == a.kind \notin {"nan", "array", "object"} /\ a = b

\* The comparator handed to sort: (a, b) => b.createdAt - a.createdAt
Compare(a, b) == b.createdAt.n - a.createdAt.n

\* Mutant: the insertion puts e last whatever the comparator says.
SortInsertLast(sorted, e) == Append(sorted, e)

\* One insertion of the stable sort: e goes behind every element the
\* comparator does not order after it.
RECURSIVE SortInsert(_, _)
SortInsert(sorted, e) ==
    IF sorted = <<>> THEN <<e>>
    ELSE IF Compare(sorted[Len(sorted)], e) <= 0
    THEN Append(sorted, e)
    ELSE Append(SortInsert(SubSeq(sorted, 1, Len(sorted) - 1), e), sorted[Len(sorted)])

\* Mutant: the array is returned in stored order.
SortSkipped(items) == items

\* parsedData.sort(comparator): Array.prototype.sort is stable.
RECURSIVE Sort(_)
Sort(items) ==
    IF items = <<>> THEN <<>>
    ELSE SortInsert(Sort(SubSeq(items, 1, Len(items) - 1)), items[Len(items)])

\* The try block of getEntries; fault: AsyncStorage.getItem rejects.
getEntriesBody(raw, fault) ==
    IF fault THEN Throw
    ELSE IF raw.kind \in {"absent", "empty"} THEN Return(<<>>)
    ELSE LET parsedData == JSONparse(raw) IN
         IF parsedData.thrown THEN Throw
         ELSE IF ~validateEntries(parsedData) THEN Return(<<>>)
         ELSE Return(Sort(parsedData.items))

\* Mutant: no catch around the body, a decode error leaves getEntries.
getEntriesUncaught(raw, fault) == getEntriesBody(raw, fault)

getEntries(raw, fault) == Catch(getEntriesBody(raw, fault), <<>>)

-----------------------------------------------------------------------------
(* Identifiers *)

\* The digits of Number.prototype.toString(36).
Digits36 ==
    << "0", "1", "2", "3", "4", "5", "6", "7", "8", "9", "a", "b", "c", "d", "e",
       "f", "g", "h", "i", "j", "k", "l", "m", "n", "o", "p", "q", "r", "s", "t",
       "u", "v", "w", "x", "y", "z" >>

\* n.toString(36) for an integer n >= 0
RECURSIVE ToString36(_)
ToString36(n) ==
    IF n < 36 THEN Digits36[n + 1]
    ELSE ToString36(n \div 36) \o Digits36[(n % 36) + 1]

\* `entry_${Date.now().toString(36)}_${Math.random().toString(36).substr(2, 9)}`
\* now: what Date.now() returns; rnd: the digits cut from Math.random().
GenerateId(now, rnd) == Str("entry_" \o ToString36(now) \o "_" \o rnd)

-----------------------------------------------------------------------------
(* Store operations, cut at their awaits: the code of a mutating call up   *)
(* to its write, the write, and the re-read with the verification.  A call *)
(* ends with an outcome: whether an error left it uncaught, its return     *)
(* value (ret, list, found or count by operation), the backend requests it *)
(* issued and, for saveEntry, the caller's entry object as the call leaves *)
(* it.                                                                     *)

Outcome(raw) ==
    [thrown |-> FALSE, ret |-> FALSE, list |-> <<>>, found |-> Null,
     count |-> 0, storage |-> raw, reads |-> 0, writes |-> 0, saved |-> Undefined]

\* The position of the write and of the re-read among the backend requests
\* of a mutating call: removeItem and getItem for clearAllEntries, after a
\* first getItem, setItem and getItem for the others.
WriteIndex(op) == IF op = "clearAllEntries" THEN 1 ELSE 2

RereadIndex(op) == IF op = "clearAllEntries" THEN 2 ELSE 3

\* entries.some(e => e.id === x.id)
SomeIdOf(entries, x) == \E i \in 1..Len(entries) : StrictEq(entries[i].id, x.id)

\* existingEntries.some(e => e.id === id)
SomeId(entries, id) == \E i \in 1..Len(entries) : StrictEq(entries[i].id, id)

\* entries.findIndex(e => e.id === id): the first match, 0 when there is none
\* (indexes count from 1 here, -1 in the code is 0).
FindIndex(entries, id) ==
    IF SomeId(entries, id)
    THEN CHOOSE i \in 1..Len(entries) :
            /\ StrictEq(entries[i].id, id)
            /\ \A j \in 1..(i - 1) : ~StrictEq(entries[j].id, id)
    ELSE 0

\* Mutant: the filter keeps nothing.
FilterOutAll(entries, id) == <<>>

\* existingEntries.filter(entry => entry.id !== id)
RECURSIVE FilterOut(_, _)
FilterOut(entries, id) ==
    IF entries = <<>> THEN <<>>
    ELSE IF StrictEq(entries[1].id, id)
    THEN FilterOut(Tail(entries), id)
    ELSE <<entries[1]>> \o FilterOut(Tail(entries), id)

\* Mutant: a stored string that cannot be read makes the call fail before it
\* writes.
saveEntryReadGuarded(raw, entry, now, rnd, fault) ==
    IF ~validateEntry(entry)
    THEN [thrown |-> TRUE, reads |-> 0, entry |-> entry, updatedEntries |-> <<>>]
    ELSE IF raw.kind # "absent" /\ (raw.kind # "array" \/ ~validateEntries(JSONparse(raw)))
    THEN [thrown |-> TRUE, reads |-> 1, entry |-> entry, updatedEntries |-> <<>>]
    ELSE LET existingEntries == getEntries(raw, fault)
             stored == IF SomeId(existingEntries.val, entry.id)
                       THEN [entry EXCEPT !.id = GenerateId(now, rnd)]
                       ELSE entry
         IN  [thrown |-> FALSE, reads |-> 1, entry |-> stored,
              updatedEntries |-> Append(existingEntries.val, stored)]

\* saveEntry up to the write: validation, first read, collision policy, append.
\* fault: the getItem of the read rejects.
saveEntryRead(raw, entry, now, rnd, fault) ==
    IF ~validateEntry(entry)
    THEN [thrown |-> TRUE, reads |-> 0, entry |-> entry, updatedEntries |-> <<>>]
    ELSE LET existingEntries == getEntries(raw, fault)
             stored == IF ~existingEntries.thrown /\ SomeId(existingEntries.val, entry.id)
                       THEN [entry EXCEPT !.id = GenerateId(now, rnd)]
                       ELSE entry
         IN  [thrown |-> existingEntries.thrown, reads |-> 1, entry |-> stored,
              updatedEntries |-> IF existingEntries.thrown THEN <<>>
                                 ELSE Append(existingEntries.val, stored)]

\* Mutant: the write keeps the elements already stored and adds the new ones
\* (a merge in place of the wholesale replacement).
setItemMerged(raw, entries, fault) ==
    IF fault THEN [thrown |-> TRUE, storage |-> raw]
    ELSE [thrown |-> FALSE,
          storage |-> Raw("array",
              SelectSeq(raw.items, LAMBDA x : ~SomeIdOf(entries, x)) \o
              JSONstringify(entries).items)]

\* Mutant: the write leaves out the elements the store no longer holds and
\* keeps the last one, the new entry of a saveEntry.
setItemRebased(raw, entries, fault) ==
    IF fault THEN [thrown |-> TRUE, storage |-> raw]
    ELSE [thrown |-> FALSE,
          storage |-> JSONstringify(
              SelectSeq(entries,
                        LAMBDA e : \/ e = entries[Len(entries)]
                                   \/ \E i \in 1..Len(raw.items) :
                                         raw.items[i] = StringifyItem(e)))]

\* Mutant: a rejected setItem has stored the new string all the same.
setItemTorn(raw, entries, fault) ==
    [thrown |-> fault, storage |-> JSONstringify(entries)]

\* await AsyncStorage.setItem(StorageKeys.ENTRIES, JSON.stringify(entries))
\* fault: setItem rejects and the stored string stays.
setItem(raw, entries, fault) ==
    IF fault THEN [thrown |-> TRUE, storage |-> raw]
    ELSE [thrown |-> FALSE, storage |-> JSONstringify(entries)]

\* The verification of saveEntry: re-read and look for the id.
saveEntryVerify(raw, entry, fault) ==
    LET currentEntries == getEntries(raw, fault) IN
    IF currentEntries.thrown THEN Throw
    ELSE Return(SomeId(currentEntries.val, entry.id))

getEntryByIdBody(raw, id, faults) ==
    LET entries == getEntries(raw, 1 \in faults) IN
    IF entries.thrown THEN [Outcome(raw) EXCEPT !.thrown = TRUE, !.reads = 1]
    ELSE LET i == FindIndex(entries.val, id) IN
         [Outcome(raw) EXCEPT !.reads = 1,
                              !.found = IF i = 0 THEN Null ELSE entries.val[i]]

\* catch (error) { ...; return null; }
getEntryById(raw, id, faults) ==
    LET o == getEntryByIdBody(raw, id, faults) IN
    IF o.thrown THEN [o EXCEPT !.thrown = FALSE, !.found = Null] ELSE o

\* Mutant: no existence check, the filtered array is written in any case.
removeEntryReadUnchecked(raw, id, fault) ==
    IF Falsy(id) \/ TypeOf(id) # "string"
    THEN [thrown |-> TRUE, reads |-> 0, found |-> FALSE, updatedEntries |-> <<>>]
    ELSE LET existingEntries == getEntries(raw, fault) IN
         IF existingEntries.thrown
         THEN [thrown |-> TRUE, reads |-> 1, found |-> FALSE, updatedEntries |-> <<>>]
         ELSE [thrown |-> FALSE, reads |-> 1, found |-> TRUE,
               updatedEntries |-> FilterOut(existingEntries.val, id)]

\* removeEntry up to the write: id check, read, existence check, filter.
\* found = FALSE is the early `return false`.
removeEntryRead(raw, id, fault) ==
    IF Falsy(id) \/ TypeOf(id) # "string"
    THEN [thrown |-> TRUE, reads |-> 0, found |-> FALSE, updatedEntries |-> <<>>]
    ELSE LET existingEntries == getEntries(raw, fault) IN
         IF existingEntries.thrown
         THEN [thrown |-> TRUE, reads |-> 1, found |-> FALSE, updatedEntries |-> <<>>]
         ELSE [thrown |-> FALSE, reads |-> 1,
               found |-> SomeId(existingEntries.val, id),
               updatedEntries |-> FilterOut(existingEntries.val, id)]

removeEntryVerify(raw, id, fault) ==
    LET currentEntries == getEntries(raw, fault) IN
    IF currentEntries.thrown THEN Throw
    ELSE Return(~SomeId(currentEntries.val, id))

\* Mutant: an entry that is not found is appended (upsert).
updateEntryReadUpsert(raw, updatedEntry, fault) ==
    IF ~validateEntry(updatedEntry)
    THEN [thrown |-> TRUE, reads |-> 0, found |-> FALSE, updatedEntries |-> <<>>]
    ELSE LET existingEntries == getEntries(raw, fault) IN
         IF existingEntries.thrown
         THEN [thrown |-> TRUE, reads |-> 1, found |-> FALSE, updatedEntries |-> <<>>]
         ELSE LET entryIndex == FindIndex(existingEntries.val, updatedEntry.id) IN
              [thrown |-> FALSE, reads |-> 1, found |-> TRUE,
               updatedEntries |->
                   IF entryIndex = 0 THEN Append(existingEntries.val, updatedEntry)
                   ELSE [existingEntries.val EXCEPT ![entryIndex] = updatedEntry]]

\* updateEntry up to the write: validation, read, lookup, replacement in place.
updateEntryRead(raw, updatedEntry, fault) ==
    IF ~validateEntry(updatedEntry)
    THEN [thrown |-> TRUE, reads |-> 0, found |-> FALSE, updatedEntries |-> <<>>]
    ELSE LET existingEntries == getEntries(raw, fault) IN
         IF existingEntries.thrown
         THEN [thrown |-> TRUE, reads |-> 1, found |-> FALSE, updatedEntries |-> <<>>]
         ELSE LET entryIndex == FindIndex(existingEntries.val, updatedEntry.id) IN
              [thrown |-> FALSE, reads |-> 1, found |-> entryIndex # 0,
               updatedEntries |->
                   IF entryIndex = 0 THEN existingEntries.val
                   ELSE [existingEntries.val EXCEPT ![entryIndex] = updatedEntry]]

updateEntryVerify(raw, updatedEntry, fault) ==
    LET currentEntries == getEntries(raw, fault) IN
    IF currentEntries.thrown THEN Throw
    ELSE Return(\E i \in 1..Len(currentEntries.val) :
                    /\ StrictEq(currentEntries.val[i].id, updatedEntry.id)
                    /\ StrictEq(currentEntries.val[i].createdAt, updatedEntry.createdAt))

clearAllEntriesVerify(raw, fault) ==
    LET currentEntries == getEntries(raw, fault) IN
    IF currentEntries.thrown THEN Throw
    ELSE Return(~(Len(currentEntries.val) > 0))

getEntryCountBody(raw, faults) ==
    LET entries == getEntries(raw, 1 \in faults) IN
    IF entries.thrown THEN [Outcome(raw) EXCEPT !.thrown = TRUE, !.reads = 1]
    ELSE [Outcome(raw) EXCEPT !.reads = 1, !.count = Len(entries.val)]

\* catch (error) { ...; return 0; }
getEntryCount(raw, faults) ==
    LET o == getEntryCountBody(raw, faults) IN
    IF o.thrown THEN [o EXCEPT !.thrown = FALSE, !.count = 0] ELSE o

\* getEntries as a call of its own.
getEntriesCall(raw, faults) ==
    LET entries == getEntries(raw, 1 \in faults) IN
    [Outcome(raw) EXCEPT !.thrown = entries.thrown, !.reads = 1,
                         !.list = IF entries.thrown THEN <<>> ELSE entries.val]

-----------------------------------------------------------------------------
(* Inputs of the calls *)

\* Entries that pass validateEntry.  The third has an id of the shape the
\* add-entry screen's generateId and the collision policy produce; the fourth
\* has a latitude that is a number but not a finite one; the fifth has empty
\* strings and carries the optional title and notes.
EntryInputs ==
    { Entry(Str("a"), Str("u"), Str("addr"), Num(1), Num(2), Num(1000)),
      Entry(Str("a"), Str("u2"), Str("addr2"), Num(3), Num(4), Num(2000)),
      Entry(Str("entry_rs_r1"), Str("u"), Str("addr"), Num(1), Num(2), Num(2000)),
      Entry(Str("a"), Str("u"), Str("addr"), NaN, Num(2), Num(1000)),
      Value("object", Str("c"), Str(""), Str(""), Num(1), Num(2), Num(3000),
            Str("t"), Str("n"), Undefined, Undefined) }

\* Values that fail validateEntry: null, a record whose id is a number, a
\* record without createdAt.
InvalidInputs ==
    { Null,
      Entry(Num(123), Str("u"), Str("addr"), Num(1), Num(2), Num(1000)),
      Entry(Str("a"), Str("u"), Str("addr"), Num(1), Num(2), Undefined) }

\* Ids handed to getEntryById and removeEntry.
IdInputs ==
    { Str("a"), Str("c"), Str("entry_rs_r1"), Str("zz"), Str(""), Num(123) }

\* Date.now() at a regeneration.
NowValues == {1000}

\* Math.random().toString(36).substr(2, 9) at a regeneration.
RandomSuffixes == {"r1", "r2"}

FaultPlans == {f \in SUBSET (1..3) : Cardinality(f) <= MaxFaults}

NoFaults == {}

-----------------------------------------------------------------------------
(* The backend with all its keys.  Every request of the store names        *)
(* StorageKeys.ENTRIES; the app start-up (App.tsx) keeps the first-launch   *)
(* flag and the counter of app openings under their own keys.              *)

\* StorageKeys.ENTRIES
EntriesKey == "@travel_diary_entries"

\* StorageKeys.THEME
ThemeKey == "@travel_diary_theme"

\* StorageKeys.APP_OPENED_COUNT
OpenedCountKey == "@travel_diary_opened_count"

\* StorageKeys.FIRST_LAUNCH
FirstLaunchKey == "@travel_diary_first_launch"

\* The keys of the backend other than StorageKeys.ENTRIES.
OtherKeys == {ThemeKey, OpenedCountKey, FirstLaunchKey}

\* Nothing is stored under the other keys.
NoOthers == [k \in OtherKeys |-> Absent]

\* What the backend holds, key by key.
Backend ==
    [k \in {EntriesKey} \cup OtherKeys |-> IF k = EntriesKey THEN storage ELSE others[k]]

\* AsyncStorage.getItem(key)
getItemAt(backend, key) == backend[key]

\* AsyncStorage.setItem(key, value)
setItemAt(backend, key, value) == [backend EXCEPT ![key] = value]

\* Mutant: the removal leaves the stored value in place.
removeItemKept(backend, key) == backend

\* Mutant: AsyncStorage.clear() in place of removeItem(key).
clearBackend(backend, key) == [k \in DOMAIN backend |-> Absent]

\* AsyncStorage.removeItem(key)
removeItemAt(backend, key) == [backend EXCEPT ![key] = Absent]

\* The backend holds b when the request has been served.
Holds(b) ==
    /\ storage' = b[EntriesKey]
    /\ others' = [k \in OtherKeys |-> b[k]]

-----------------------------------------------------------------------------
(* Calls in flight.  A call runs up to the await of a backend request, and *)
(* the backend serves one request at a time; requests of other calls may   *)
(* be served between two requests of one call.  The first request of a     *)
(* call is served as the call is made.                                     *)

\* A caller with no call in flight, having issued calls calls so far.
IdleAfter(calls) == [pc |-> "idle", calls |-> calls]

Idle == IdleAfter(0)

TaskIds == {1, 2}

\* The caller of sequential use.
Caller == 1

\* A call in flight that is about to write: op and its argument (entry or
\* id), the requests of the call that the backend rejects (faults, counted in
\* the order the call issues them), what the backend held when the call was
\* made and the stored string its first read saw (pre), the entry as
\* saveEntry re-identified it, the array the call is about to write, and the
\* requests issued so far.
Started(calls, op, arg, id, faults, backend, entry, updatedEntries) ==
    [pc |-> "write", calls |-> calls + 1, op |-> op, arg |-> arg, id |-> id,
     faults |-> faults, pre |-> backend[EntriesKey], backend |-> backend,
     entry |-> entry, updatedEntries |-> updatedEntries, ret |-> FALSE,
     reads |-> 1, writes |-> 0]

\* A call that returned false without writing, after reads reads.
Refused(calls, op, arg, id, faults, backend, reads) ==
    [pc |-> "done", calls |-> calls + 1, op |-> op, arg |-> arg, id |-> id,
     faults |-> faults, pre |-> backend[EntriesKey], backend |-> backend,
     entry |-> arg, updatedEntries |-> <<>>, ret |-> FALSE,
     reads |-> reads, writes |-> 0]

\* saveEntry up to the await of setItem; an error goes to the catch, which
\* returns false.
saveEntryStart(calls, backend, entry, now, rnd, faults) ==
    LET r == saveEntryRead(getItemAt(backend, EntriesKey), entry, now, rnd, 1 \in faults) IN
    IF r.thrown
    THEN Refused(calls, "saveEntry", entry, Undefined, faults, backend, r.reads)
    ELSE Started(calls, "saveEntry", entry, Undefined, faults, backend, r.entry,
                 r.updatedEntries)

\* removeEntry up to the await of setItem.
removeEntryStart(calls, backend, id, faults) ==
    LET r == removeEntryRead(getItemAt(backend, EntriesKey), id, 1 \in faults) IN
    IF r.thrown \/ ~r.found
    THEN Refused(calls, "removeEntry", Undefined, id, faults, backend, r.reads)
    ELSE Started(calls, "removeEntry", Undefined, id, faults, backend, Undefined,
                 r.updatedEntries)

\* updateEntry up to the await of setItem.
updateEntryStart(calls, backend, updatedEntry, faults) ==
    LET r == updateEntryRead(getItemAt(backend, EntriesKey), updatedEntry, 1 \in faults) IN
    IF r.thrown \/ ~r.found
    THEN Refused(calls, "updateEntry", updatedEntry, Undefined, faults, backend, r.reads)
    ELSE Started(calls, "updateEntry", updatedEntry, Undefined, faults, backend,
                 updatedEntry, r.updatedEntries)

\* clearAllEntries as its removeItem has been served: rejected, the call
\* returns false; served, the call goes on to its re-read.
clearAllEntriesStart(calls, backend, faults) ==
    [Started(calls, "clearAllEntries", Undefined, Undefined, faults, backend,
             Undefined, <<>>)
        EXCEPT !.pc = IF WriteIndex("clearAllEntries") \in faults THEN "done" ELSE "verify",
               !.reads = 0, !.writes = 1]

\* Caller p makes the call that is in flight as t.
Begin(p, t) ==
    /\ tasks' = [tasks EXCEPT ![p] = t]
    /\ UNCHANGED <<storage, last, others, screen>>

\* Caller p calls clearAllEntries and the backend serves its removeItem.
BeginClear(p, calls, faults) ==
    /\ Holds(IF WriteIndex("clearAllEntries") \in faults THEN Backend
             ELSE removeItemAt(Backend, EntriesKey))
    /\ tasks' = [tasks EXCEPT ![p] = clearAllEntriesStart(calls, Backend, faults)]
    /\ UNCHANGED <<last, screen>>

\* The backend serves the setItem of call p; rejected, the call returns false.
Write(p) ==
    /\ tasks[p].pc = "write"
    /\ \E w \in {setItem(getItemAt(Backend, EntriesKey), tasks[p].updatedEntries,
                         WriteIndex(tasks[p].op) \in tasks[p].faults)} :
        /\ Holds(setItemAt(Backend, EntriesKey, w.storage))
        /\ tasks' = [tasks EXCEPT ![p].pc = IF w.thrown THEN "done" ELSE "verify",
                                  ![p].writes = 1]
    /\ UNCHANGED <<last, screen>>

\* The backend serves the re-read of call p, which verifies and returns.
Verify(p) ==
    /\ tasks[p].pc = "verify"
    /\ \E fault \in {RereadIndex(tasks[p].op) \in tasks[p].faults} :
        \E v \in { CASE tasks[p].op = "saveEntry" ->
                        saveEntryVerify(getItemAt(Backend, EntriesKey), tasks[p].entry, fault)
                     [] tasks[p].op = "removeEntry" ->
                        removeEntryVerify(getItemAt(Backend, EntriesKey), tasks[p].id, fault)
                     [] tasks[p].op = "updateEntry" ->
                        updateEntryVerify(getItemAt(Backend, EntriesKey), tasks[p].entry, fault)
                     [] tasks[p].op = "clearAllEntries" ->
                        clearAllEntriesVerify(getItemAt(Backend, EntriesKey), fault) } :
            tasks' = [tasks EXCEPT ![p].pc = "done",
                                   ![p].ret = (~v.thrown /\ v.val),
                                   ![p].reads = @ + 1]
    /\ UNCHANGED <<storage, last, others, screen>>

-----------------------------------------------------------------------------
(* Sequential use: the caller awaits one call at a time.  A call that has  *)
(* returned leaves its record in last; the caller takes the result before  *)
(* it makes the next call.                                                 *)

\* The record kept of a completed call.
Call(op, arg, id, faults, backend, o) ==
    [op |-> op, arg |-> arg, id |-> id, faults |-> faults,
     pre |-> backend[EntriesKey], backend |-> backend,
     thrown |-> o.thrown, ret |-> o.ret, list |-> o.list, found |-> o.found,
     count |-> o.count, reads |-> o.reads, writes |-> o.writes, saved |-> o.saved]

NoCall == [op |-> "none"]

\* The record of the mutating call that was in flight as t and has returned.
Completed(t) ==
    Call(t.op, t.arg, t.id, t.faults, t.backend,
         [Outcome(t.pre) EXCEPT !.ret = t.ret, !.reads = t.reads, !.writes = t.writes,
                                !.saved = IF t.op = "saveEntry" THEN t.entry
                                          ELSE Undefined])

\* The add-entry screen is not open.
Closed == [pc |-> "closed"]

\* The caller has no call in flight and no result waiting to be taken.
Quiet == last = NoCall /\ tasks[Caller].pc = "idle"

Init ==
    /\ others = NoOthers
    /\ screen = Closed
    /\ storage = Absent
    /\ last = NoCall
    /\ tasks = [p \in TaskIds |-> Idle]

\* saveEntry(entry) for one of entries, on a store that is to hold at most max
\* elements.
SaveEntryOf(entries, max) ==
    /\ Quiet
    /\ \E entry \in entries, now \in NowValues, rnd \in RandomSuffixes,
          faults \in FaultPlans :
        \E t \in {saveEntryStart(0, Backend, entry, now, rnd, faults)} :
            /\ Len(t.updatedEntries) <= max
            /\ Begin(Caller, t)

SaveEntry == SaveEntryOf(EntryInputs \cup InvalidInputs, MaxEntries)

\* A reader issues one request: the call is one step.
GetEntries ==
    /\ Quiet
    /\ \E faults \in FaultPlans :
        \E o \in {getEntriesCall(getItemAt(Backend, EntriesKey), faults)} :
            last' = Call("getEntries", Undefined, Undefined, faults, Backend, o)
    /\ UNCHANGED <<storage, tasks, others, screen>>

GetEntryByIdOf(ids) ==
    /\ Quiet
    /\ \E id \in ids, faults \in FaultPlans :
        \E o \in {getEntryById(getItemAt(Backend, EntriesKey), id, faults)} :
            last' = Call("getEntryById", Undefined, id, faults, Backend, o)
    /\ UNCHANGED <<storage, tasks, others, screen>>

GetEntryById == GetEntryByIdOf(IdInputs)

RemoveEntryOf(ids) ==
    /\ Quiet
    /\ \E id \in ids, faults \in FaultPlans :
        Begin(Caller, removeEntryStart(0, Backend, id, faults))

RemoveEntry == RemoveEntryOf(IdInputs)

UpdateEntryOf(entries) ==
    /\ Quiet
    /\ \E updatedEntry \in entries, faults \in FaultPlans :
        Begin(Caller, updateEntryStart(0, Backend, updatedEntry, faults))

UpdateEntry == UpdateEntryOf(EntryInputs \cup InvalidInputs)

ClearAllEntries ==
    /\ Quiet
    /\ \E faults \in FaultPlans : BeginClear(Caller, 0, faults)

GetEntryCount ==
    /\ Quiet
    /\ \E faults \in FaultPlans :
        \E o \in {getEntryCount(getItemAt(Backend, EntriesKey), faults)} :
            last' = Call("getEntryCount", Undefined, Undefined, faults, Backend, o)
    /\ UNCHANGED <<storage, tasks, others, screen>>

\* The mutating call of the caller returns.
CallReturns ==
    /\ last = NoCall
    /\ tasks[Caller].pc = "done"
    /\ last' = Completed(tasks[Caller])
    /\ tasks' = [tasks EXCEPT ![Caller] = Idle]
    /\ UNCHANGED <<storage, others, screen>>

\* The caller's await resumes with the result of the call.
TakeResult ==
    /\ last # NoCall
    /\ last' = NoCall
    /\ UNCHANGED <<storage, tasks, others, screen>>

Next ==
    \/ SaveEntry
    \/ GetEntries
    \/ GetEntryById
    \/ RemoveEntry
    \/ UpdateEntry
    \/ ClearAllEntries
    \/ GetEntryCount
    \/ Write(Caller)
    \/ Verify(Caller)
    \/ CallReturns
    \/ TakeResult

Spec == Init /\ [][Next]_vars

\* Values the backend may hold under the key when the app starts: nothing, the
\* empty string, text that is not JSON, JSON that is not an array, an array
\* with an element that is no entry ([{"id": 123}]), and readable arrays,
\* the last one not in createdAt order.
RawInputs ==
    { Absent,
      Raw("empty", <<>>),
      Raw("garbage", <<>>),
      Raw("nonarray", <<>>),
      Raw("array", << Value("object", Num(123), Undefined, Undefined, Undefined,
                            Undefined, Undefined, Undefined, Undefined, Undefined,
                            Undefined) >>),
      Raw("array", << Entry(Str("a"), Str("u"), Str("addr"), Num(1), Num(2), Num(1000)) >>),
      Raw("array", << Entry(Str("a"), Str("u"), Str("addr"), Num(1), Num(2), Num(1000)),
                      Entry(Str("c"), Str("u"), Str("addr"), Num(1), Num(2), Num(3000)) >>) }

InitAny ==
    /\ others = NoOthers
    /\ screen = Closed
    /\ storage \in RawInputs
    /\ last = NoCall
    /\ tasks = [p \in TaskIds |-> Idle]

\* The same calls, started on any persisted value.
SpecAny == InitAny /\ [][Next]_vars

-----------------------------------------------------------------------------
(* Concurrent use: two callers whose calls overlap.  The backend is        *)
(* fault-free here.                                                        *)

\* The arguments of the overlapping calls.
ConcEntryInputs ==
    { Entry(Str("a"), Str("u"), Str("addr"), Num(1), Num(2), Num(1000)),
      Entry(Str("a"), Str("u2"), Str("addr2"), Num(3), Num(4), Num(2000)),
      Value("object", Str("c"), Str(""), Str(""), Num(1), Num(2), Num(3000),
            Str("t"), Str("n"), Undefined, Undefined),
      Null }

ConcIdInputs == { Str("a"), Str("c") }

CanStart(p) == tasks[p].pc = "idle" /\ tasks[p].calls < MaxCalls

SaveStart(p) ==
    /\ CanStart(p)
    /\ \E entry \in ConcEntryInputs, now \in NowValues, rnd \in RandomSuffixes :
        \E t \in {saveEntryStart(tasks[p].calls, Backend, entry, now, rnd, NoFaults)} :
            /\ Len(t.updatedEntries) <= MaxEntries
            /\ Begin(p, t)

RemoveStart(p) ==
    /\ CanStart(p)
    /\ \E id \in ConcIdInputs :
        Begin(p, removeEntryStart(tasks[p].calls, Backend, id, NoFaults))

UpdateStart(p) ==
    /\ CanStart(p)
    /\ \E updatedEntry \in ConcEntryInputs :
        Begin(p, updateEntryStart(tasks[p].calls, Backend, updatedEntry, NoFaults))

ClearStart(p) ==
    /\ CanStart(p)
    /\ BeginClear(p, tasks[p].calls, NoFaults)

\* The caller of call p takes its result.
TakeTaskResult(p) ==
    /\ tasks[p].pc = "done"
    /\ tasks' = [tasks EXCEPT ![p] = IdleAfter(tasks[p].calls)]
    /\ UNCHANGED <<storage, last, others, screen>>

NextConc ==
    \E p \in TaskIds :
        \/ SaveStart(p)
        \/ RemoveStart(p)
        \/ UpdateStart(p)
        \/ ClearStart(p)
        \/ Write(p)
        \/ Verify(p)
        \/ TakeTaskResult(p)

\* What the store holds when the overlapping calls begin: nothing, or what an
\* earlier saveEntry that ran alone has written.
ConcStores ==
    { Absent,
      setItem(Absent, << Entry(Str("a"), Str("u"), Str("addr"), Num(1), Num(2), Num(1000)) >>,
              FALSE).storage }

InitConc ==
    /\ others = NoOthers
    /\ screen = Closed
    /\ storage \in ConcStores
    /\ last = NoCall
    /\ tasks = [p \in TaskIds |-> Idle]

SpecConc == InitConc /\ [][NextConc]_vars

-----------------------------------------------------------------------------
(* The validator on its own: validateEntry applied to one decoded value.   *)

\* What a property of a decoded value may hold: nothing, null, numbers (in
\* and out of the range of a latitude, NaN and the infinities), strings, an
\* array, a record.
FieldValues ==
    { Undefined, Null, Num(0), Num(200), NaN, Infinity, NegInfinity, Str(""),
      Str("x"), Plain("array"), Plain("object") }

\* The values tried in every combination on the six required fields.
RequiredValues ==
    { Undefined, Null, Num(0), Num(200), NaN, Infinity, Str(""), Str("x"),
      Plain("array") }

\* Values that are no records.
NonRecords ==
    { Undefined, Null, NaN, Num(0), Num(5), Str(""), Str("x"), Plain("array") }

\* A record with well-typed required fields, field name set to v.
OneFieldSet(name, v) ==
    [Entry(Str("a"), Str("u"), Str("addr"), Num(1), Num(2), Num(1000)) EXCEPT ![name] = v]

\* A value waiting to be validated.
ValidateInput(v) == [op |-> "input", arg |-> v]

\* The values handed to validateEntry: values that are no records; records
\* with no optional field and any combination of RequiredValues on the
\* required ones; a well-typed record with one required field set to each of
\* FieldValues; well-typed records with any combination of FieldValues on
\* the four optional fields.
InitValidate ==
    /\ others = NoOthers
    /\ screen = Closed
    /\ storage = Absent
    /\ tasks = [p \in TaskIds |-> Idle]
    /\ \/ \E v \in NonRecords : last = ValidateInput(v)
       \/ \E id \in RequiredValues, imageUri \in RequiredValues,
             address \in RequiredValues, latitude \in RequiredValues,
             longitude \in RequiredValues, createdAt \in RequiredValues :
            last = ValidateInput(Entry(id, imageUri, address, latitude, longitude,
                                       createdAt))
       \/ \E i \in 1..Len(requiredFields), v \in FieldValues :
            last = ValidateInput(OneFieldSet(requiredFields[i].name, v))
       \/ \E title \in FieldValues, notes \in FieldValues, tags \in FieldValues,
             weather \in FieldValues :
            last = ValidateInput(Value("object", Str("a"), Str(""), Str("addr"),
                                       Num(200), NaN, Num(1000),
                                       title, notes, tags, weather))

ValidateEntry ==
    /\ last.op = "input"
    /\ last' = [op |-> "validateEntry", arg |-> last.arg, ret |-> validateEntry(last.arg)]
    /\ UNCHANGED <<storage, tasks>>
    /\ UNCHANGED <<others, screen>>

NextValidate == ValidateEntry

SpecValidate == InitValidate /\ [][NextValidate]_vars

-----------------------------------------------------------------------------
(* saveEntry alone, from the empty store, up to MaxSaved stored entries.   *)

\* The longest array a run of saveEntry calls alone may leave in the store.
MaxSaved == 3

\* The entries saved: createdAt values in no order, and one latitude that
\* JSON cannot write.
SaveInputs ==
    { Entry(Str("a"), Str("u"), Str("addr"), Num(1), Num(2), Num(1000)),
      Entry(Str("b"), Str("u2"), Str("addr2"), Num(3), Num(4), Num(2000)),
      Entry(Str("c"), Str("u"), Str("addr"), Num(1), Num(2), Num(3000)),
      Entry(Str("a"), Str("u"), Str("addr"), NaN, Num(2), Num(1000)) }

SaveOnly == SaveEntryOf(SaveInputs, MaxSaved)

NextSaves ==
    \/ SaveOnly
    \/ Write(Caller)
    \/ Verify(Caller)
    \/ CallReturns
    \/ TakeResult

SpecSaves == Init /\ [][NextSaves]_vars

-----------------------------------------------------------------------------
(* The store and the app start-up on a backend that holds the other keys.  *)

\* How many app openings the counter under APP_OPENED_COUNT goes up to.
MaxOpens == 2

\* debugStorage: reads the entries and logs; returns nothing.
debugStorage(raw, faults) == [getEntriesCall(raw, faults) EXCEPT !.list = <<>>]

\* n.toString() for an integer n >= 0
RECURSIVE ToString10(_)
ToString10(n) ==
    IF n < 10 THEN Digits36[n + 1]
    ELSE ToString10(n \div 10) \o Digits36[(n % 10) + 1]

\* parseInt(s) of the decimal text of a count
parseInt(s) == CHOOSE n \in 0..(MaxOpens + 1) : ToString10(n) = s

\* Entries and ids handed to the store calls on the keyed backend.
KeyedEntryInputs ==
    { Entry(Str("a"), Str("u"), Str("addr"), Num(1), Num(2), Num(1000)),
      Value("object", Str("c"), Str(""), Str(""), Num(1), Num(2), Num(3000),
            Str("t"), Str("n"), Undefined, Undefined),
      Null }

KeyedIdInputs == { Str("a"), Str("zz") }

KeyedSaveEntry == SaveEntryOf(KeyedEntryInputs, MaxEntries)

KeyedGetEntryById == GetEntryByIdOf(KeyedIdInputs)

KeyedRemoveEntry == RemoveEntryOf(KeyedIdInputs)

KeyedUpdateEntry == UpdateEntryOf(KeyedEntryInputs)

DebugStorage ==
    /\ Quiet
    /\ \E faults \in FaultPlans :
        \E o \in {debugStorage(getItemAt(Backend, EntriesKey), faults)} :
            last' = Call("debugStorage", Undefined, Undefined, faults, Backend, o)
    /\ UNCHANGED <<storage, tasks, others, screen>>

\* appOpenedCountStr ? parseInt(appOpenedCountStr) : 0
OpenedCount(appOpenedCountStr) ==
    IF appOpenedCountStr = Absent \/ Falsy(appOpenedCountStr) THEN 0
    ELSE parseInt(appOpenedCountStr.s)

\* initializeApp runs beside the store calls of the screens, which App
\* renders at once.
Starter == 2

\* The start-up at one of its awaits, or ended: returned, or rejected with
\* the request it awaited.
Starting(pc, appOpenedCount) ==
    [pc |-> pc, calls |-> 0, op |-> "initializeApp", appOpenedCount |-> appOpenedCount]

\* The start-up goes on to pc, or ends there when the request was rejected.
StartUp(pc, appOpenedCount, rejected) ==
    tasks' = [tasks EXCEPT ![Starter] =
                Starting(IF rejected THEN "ended" ELSE pc, appOpenedCount)]

\* App mounts and initializeApp runs up to the answer of
\* getItem(FIRST_LAUNCH).
InitializeApp ==
    /\ tasks[Starter].pc = "idle"
    /\ OpenedCount(getItemAt(Backend, OpenedCountKey)) < MaxOpens
    /\ \E rejected \in BOOLEAN, firstLaunch \in {getItemAt(Backend, FirstLaunchKey)} :
        StartUp(IF firstLaunch = Absent THEN "requestAllPermissions"
                ELSE "getOpenedCount", 0, rejected)
    /\ UNCHANGED <<storage, last, others, screen>>

\* On the first launch: requestAllPermissions() returns or rejects.
RequestAllPermissions ==
    /\ tasks[Starter].pc = "requestAllPermissions"
    /\ \E rejected \in BOOLEAN : StartUp("setFirstLaunch", 0, rejected)
    /\ UNCHANGED <<storage, last, others, screen>>

\* On the first launch: setItem(FIRST_LAUNCH, 'false').
SetFirstLaunch ==
    /\ tasks[Starter].pc = "setFirstLaunch"
    /\ \E rejected \in BOOLEAN :
        /\ Holds(IF rejected THEN Backend
                 ELSE setItemAt(Backend, FirstLaunchKey, Str("false")))
        /\ StartUp("getOpenedCount", 0, rejected)
    /\ UNCHANGED <<last, screen>>

\* getItem(APP_OPENED_COUNT) and the count read from it.
GetOpenedCount ==
    /\ tasks[Starter].pc = "getOpenedCount"
    /\ \E rejected \in BOOLEAN :
        StartUp("setOpenedCount",
                IF rejected THEN 0 ELSE OpenedCount(getItemAt(Backend, OpenedCountKey)),
                rejected)
    /\ UNCHANGED <<storage, last, others, screen>>

\* setItem(APP_OPENED_COUNT, (appOpenedCount + 1).toString())
SetOpenedCount ==
    /\ tasks[Starter].pc = "setOpenedCount"
    /\ \E rejected \in BOOLEAN :
        /\ Holds(IF rejected THEN Backend
                 ELSE setItemAt(Backend, OpenedCountKey,
                                Str(ToString10(tasks[Starter].appOpenedCount + 1))))
        /\ StartUp("ended", 0, rejected)
    /\ UNCHANGED <<last, screen>>

\* The app is closed, with no store call in flight, and launched again.
Relaunch ==
    /\ tasks[Starter].pc = "ended"
    /\ Quiet
    /\ tasks' = [tasks EXCEPT ![Starter] = Idle]
    /\ UNCHANGED <<storage, last, others, screen>>

\* The theme is stored by the theme provider: light, dark or not yet stored.
InitKeys ==
    /\ storage = Absent
    /\ last = NoCall
    /\ tasks = [p \in TaskIds |-> Idle]
    /\ \E theme \in {Absent, Str("light"), Str("dark")} :
        others = [NoOthers EXCEPT ![ThemeKey] = theme]
    /\ screen = Closed

NextKeys ==
    \/ KeyedSaveEntry
    \/ GetEntries
    \/ KeyedGetEntryById
    \/ KeyedRemoveEntry
    \/ KeyedUpdateEntry
    \/ ClearAllEntries
    \/ GetEntryCount
    \/ DebugStorage
    \/ Write(Caller)
    \/ Verify(Caller)
    \/ CallReturns
    \/ TakeResult
    \/ InitializeApp
    \/ RequestAllPermissions
    \/ SetFirstLaunch
    \/ GetOpenedCount
    \/ SetOpenedCount
    \/ Relaunch

SpecKeys == InitKeys /\ [][NextKeys]_vars

-----------------------------------------------------------------------------
(* The add-entry screen (AddEntryScreen.tsx): the form, the save flow      *)
(* saveTravelEntry and what follows a save.  A text the user types is the  *)
(* sequence of its UTF-16 code units, as a JavaScript string is, and so is  *)
(* the title and the notes of the entry made of it.                        *)

\* The code units String.prototype.trim takes off: the WhiteSpace of
\* ECMAScript (tab U+0009, vertical tab U+000B, form feed U+000C, the byte
\* order mark U+FEFF and the space separators U+0020, U+00A0, U+1680,
\* U+2000 to U+200A, U+202F, U+205F, U+3000) and its LineTerminator (U+000A,
\* U+000D, U+2028, U+2029).
WhiteSpace ==
    {9, 10, 11, 12, 13, 32, 160, 5760, 8232, 8233, 8239, 8287, 12288, 65279}
        \cup (8192..8202)

\* s.trim(), in two halves
RECURSIVE TrimStart(_)
TrimStart(t) ==
    IF t = <<>> THEN <<>>
    ELSE IF t[1] \in WhiteSpace THEN TrimStart(Tail(t))
    ELSE t

RECURSIVE TrimEnd(_)
TrimEnd(t) ==
    IF t = <<>> THEN <<>>
    ELSE IF t[Len(t)] \in WhiteSpace THEN TrimEnd(SubSeq(t, 1, Len(t) - 1))
    ELSE t

trim(t) == TrimEnd(TrimStart(t))

\* The launchCamera calls of one screen that are followed at once; the
\* button that starts them is never disabled.
MaxPictures == 2

\* The saveTravelEntry calls that reach saveEntry, one after the other or at
\* once, each with its saveEntry call in flight in tasks.
FlowIds == 1..MaxCalls

\* No launchCamera is in flight.
NoCamera == [shooting |-> 0, locating |-> 0, geocoding |-> 0]

\* A saveTravelEntry that has not been started.  pc is the await at which a
\* saveTravelEntry stands: "calling" at saveEntry whose first getItem is not
\* answered yet, "saving" at saveEntry further on, "notifying" at the
\* permission requests of sendNotification, "scheduling" at
\* scheduleNotificationAsync, "ended" when it has returned.  own tells that
\* it is in flight and of the screen that is shown, whose state it sets; the
\* state of a removed screen is set no more.  newEntry is the entry handed to
\* saveEntry, saved is what saveEntry returned, notified and navigated tell
\* whether the notification was scheduled and whether handleSuccessfulSave
\* navigated to Home.
NoFlow ==
    [pc |-> "idle", own |-> FALSE, newEntry |-> Undefined, saved |-> "none",
     notified |-> FALSE, navigated |-> FALSE]

\* The screen as it mounts: the initial values of its useState hooks.  pc
\* tells where the navigator is: on the add-entry screen ("form") or, the
\* screen removed, on Home.  camera counts the launchCamera calls in flight
\* by the await at which they stand: "shooting" until the picture is there,
\* "locating" at getCurrentPositionAsync, "geocoding" at reverseGeocode.
\* flows are the saveTravelEntry calls, alerts holds the alerts validateForm
\* and the catch of saveTravelEntry have shown since the app started.
Mounted ==
    [pc |-> "form", imageUri |-> Null, address |-> Str(""), location |-> Null,
     title |-> <<>>, notes |-> <<>>, isLoading |-> FALSE, hasChanges |-> FALSE,
     camera |-> NoCamera, alerts |-> {}, flows |-> [f \in FlowIds |-> NoFlow]]

\* The screen is shown: its buttons can be pressed and its state can be set.
Shown == screen.pc = "form"

\* The add-entry screen has been opened, now or before.
Opened == screen.pc # "closed"

\* The launchCamera calls in flight.
Pictures(sc) == sc.camera.shooting + sc.camera.locating + sc.camera.geocoding

\* { latitude, longitude } of locationData.coords
Coords(latitude, longitude) ==
    [kind |-> "object", latitude |-> latitude, longitude |-> longitude]

\* What reverseGeocode returns: the parts of the first address joined, which
\* is '' when it has none, or 'Address unavailable' when there was no address
\* or the geocoder failed.  'Address unavailable' stands for every address
\* that is not empty.
Addresses == { Str(""), Str("Address unavailable") }

\* Texts typed or pasted into the title field: nothing, an ideographic space
\* and a vertical tab, and a letter between a tab and a byte order mark.
Titles == { <<>>, <<12288, 11>>, <<9, 116, 65279>> }

\* Texts typed into the notes field, which takes several lines.
Notes == { <<>>, <<110, 10>> }

\* The effect on [imageUri, location, title, notes] as it runs.
Effect(sc) ==
    [sc EXCEPT !.hasChanges = @ \/ ~Falsy(sc.imageUri) \/ sc.title # <<>> \/ sc.notes # <<>>]

\* The effect runs after a render in which one of imageUri, location, title
\* and notes is not what it was.
Changed(old, new) ==
    IF <<old.imageUri, old.location, old.title, old.notes>>
         = <<new.imageUri, new.location, new.title, new.notes>>
    THEN new
    ELSE Effect(new)

\* resetForm
resetForm(sc) ==
    [sc EXCEPT !.imageUri = Null, !.address = Str(""), !.location = Null,
               !.title = <<>>, !.notes = <<>>, !.hasChanges = FALSE]

\* The navigator removes the screen: the beforeRemove listener resets the
\* form, the screen unmounts, its state gone with it, and Home is shown.  The
\* calls of the screen that are in flight go on, but set its state no more.
ScreenRemoved(sc) ==
    LET reset == resetForm(sc) IN
    [pc |-> "home", alerts |-> reset.alerts,
     flows |-> [f \in FlowIds |-> [reset.flows[f] EXCEPT !.own = FALSE]]]

\* Mutant: the title is not looked at.
validateFormTitleUnchecked(sc) ==
    IF Falsy(sc.imageUri) THEN [ok |-> FALSE, alert |-> "Missing Image"]
    ELSE IF Falsy(sc.address) THEN [ok |-> FALSE, alert |-> "Missing Address"]
    ELSE IF Falsy(sc.location) THEN [ok |-> FALSE, alert |-> "Missing Location"]
    ELSE [ok |-> TRUE, alert |-> "none"]

\* validateForm: whether the form may be saved, and the alert it shows if not.
validateForm(sc) ==
    IF Falsy(sc.imageUri) THEN [ok |-> FALSE, alert |-> "Missing Image"]
    ELSE IF Falsy(sc.address) THEN [ok |-> FALSE, alert |-> "Missing Address"]
    ELSE IF Falsy(sc.location) THEN [ok |-> FALSE, alert |-> "Missing Location"]
    ELSE IF trim(sc.title) = <<>> THEN [ok |-> FALSE, alert |-> "Missing Title"]
    ELSE [ok |-> TRUE, alert |-> "none"]

\* createTravelEntry; now: Date.now() in generateId, rnd: the random digits
\* of generateId, createdAt: the later Date.now() of createdAt.  Without a
\* location, location!.latitude throws a TypeError.  The title and the
\* notes are the code units trim() leaves, none added and none rewritten.
createTravelEntry(sc, now, rnd, createdAt) ==
    IF sc.location.kind \in {"null", "undefined"}
    THEN [thrown |-> TRUE, entry |-> Undefined]
    ELSE [thrown |-> FALSE,
          entry |-> Value("object", GenerateId(now, rnd), sc.imageUri, sc.address,
                          sc.location.latitude, sc.location.longitude, Num(createdAt),
                          Str(trim(sc.title)),
                          IF trim(sc.notes) = <<>> THEN Undefined
                          ELSE Str(trim(sc.notes)),
                          Undefined, Undefined)]

InitScreen ==
    /\ storage = Absent
    /\ last = NoCall
    /\ tasks = [p \in TaskIds \cup FlowIds |-> Idle]
    /\ others = NoOthers
    /\ screen = Closed

\* The user navigates to the add-entry screen, which mounts anew.  The
\* saveTravelEntry calls of a screen that was removed go on.
OpenScreen ==
    /\ screen.pc \in {"closed", "home"}
    /\ screen' =
        IF screen.pc = "home"
        THEN [Mounted EXCEPT !.alerts = screen.alerts, !.flows = screen.flows]
        ELSE Mounted
    /\ UNCHANGED <<storage, last, tasks, others>>

\* handleBackWithWarning (header Back, Cancel) or the hardware back, with
\* 'Discard' chosen where there are changes: navigation.goBack().
GoBack ==
    /\ Shown
    /\ screen' = ScreenRemoved(screen)
    /\ UNCHANGED <<storage, last, tasks, others>>

\* takePicture, whose button is never disabled, up to the first await of
\* launchCamera (after 'Replace' was chosen when there is a picture already).
\* MaxPictures calls are followed at once.
TakePicture ==
    /\ Shown
    /\ Pictures(screen) < MaxPictures
    /\ screen' = [screen EXCEPT !.camera.shooting = @ + 1]
    /\ UNCHANGED <<storage, last, tasks, others>>

\* launchCamera returns without a picture: a permission was refused or the
\* camera was cancelled.
PictureNotTaken ==
    /\ Shown
    /\ screen.camera.shooting > 0
    /\ screen' = [screen EXCEPT !.camera.shooting = @ - 1]
    /\ UNCHANGED <<storage, last, tasks, others>>

\* manipulateAsync returned: launchCamera sets the picture, clears location
\* and address, and getLocationAndAddress starts.
PictureTaken ==
    /\ Shown
    /\ screen.camera.shooting > 0
    /\ screen' = Changed(screen,
                         [screen EXCEPT !.imageUri = Str("file:///photo.jpg"),
                                        !.location = Null,
                                        !.address = Str(""),
                                        !.isLoading = TRUE,
                                        !.camera.shooting = @ - 1,
                                        !.camera.locating = @ + 1])
    /\ UNCHANGED <<storage, last, tasks, others>>

\* getCurrentPositionAsync returned a position: setLocation with a new
\* object.
PositionFound ==
    /\ Shown
    /\ screen.camera.locating > 0
    /\ screen' = Effect([screen EXCEPT !.location = Coords(Num(1), Num(2)),
                                       !.camera.locating = @ - 1,
                                       !.camera.geocoding = @ + 1])
    /\ UNCHANGED <<storage, last, tasks, others>>

\* getCurrentPositionAsync threw: the catch and the finally of
\* getLocationAndAddress.
PositionFailed ==
    /\ Shown
    /\ screen.camera.locating > 0
    /\ screen' = [screen EXCEPT !.isLoading = FALSE,
                                !.camera.locating = @ - 1]
    /\ UNCHANGED <<storage, last, tasks, others>>

\* reverseGeocode returned: setAddress and the finally of
\* getLocationAndAddress.
Geocoded ==
    /\ Shown
    /\ screen.camera.geocoding > 0
    /\ \E address \in Addresses :
        screen' = [screen EXCEPT !.address = address,
                                 !.isLoading = FALSE,
                                 !.camera.geocoding = @ - 1]
    /\ UNCHANGED <<storage, last, tasks, others>>

\* {imageUri && (...)}: the title and notes fields are rendered.
FieldsShown(sc) == ~Falsy(sc.imageUri)

\* onChangeText={setTitle}
EditTitle ==
    /\ Shown
    /\ FieldsShown(screen)
    /\ \E title \in Titles : screen' = Changed(screen, [screen EXCEPT !.title = title])
    /\ UNCHANGED <<storage, last, tasks, others>>

\* onChangeText={setNotes}
EditNotes ==
    /\ Shown
    /\ FieldsShown(screen)
    /\ \E notes \in Notes : screen' = Changed(screen, [screen EXCEPT !.notes = notes])
    /\ UNCHANGED <<storage, last, tasks, others>>

\* {imageUri && address && location && (...)}: the bottom bar with the save
\* button is rendered.
SaveButtonShown(sc) == ~Falsy(sc.imageUri) /\ ~Falsy(sc.address) /\ ~Falsy(sc.location)

\* The catch of saveTravelEntry f, in a screen that is shown or removed:
\* handleError alerts, and setIsLoading(false) sets the state of the screen
\* that made the call while it is shown.  saved is what saveEntry returned.
SaveFailed(sc, f, saved) ==
    LET alerted == [sc EXCEPT !.flows[f] = [@ EXCEPT !.pc = "ended", !.own = FALSE,
                                                     !.saved = saved,
                                                     !.newEntry = Undefined],
                              !.alerts = @ \cup {"Save Error"}]
    IN  IF sc.flows[f].own THEN [alerted EXCEPT !.isLoading = FALSE] ELSE alerted

\* The press of the save button, which is disabled while isLoading:
\* saveTravelEntry up to its await of saveEntry, and saveEntry up to its
\* await of the getItem in getEntries.  When validateForm refuses, its alert
\* is shown and saveTravelEntry returns.  MaxCalls saveTravelEntry calls pass
\* validateForm in all.
PressSave ==
    /\ Shown
    /\ SaveButtonShown(screen)
    /\ ~screen.isLoading
    /\ \E v \in {validateForm(screen)} :
        IF ~v.ok
        THEN screen' = [screen EXCEPT !.alerts = @ \cup {v.alert}]
        ELSE \E f \in FlowIds :
                /\ screen.flows[f].pc = "idle"
                /\ \A g \in FlowIds : g < f => screen.flows[g].pc # "idle"
                /\ \E now \in NowValues, rnd \in RandomSuffixes, createdAt \in NowValues :
                    \E c \in {createTravelEntry(screen, now, rnd, createdAt)} :
                        screen' =
                            IF c.thrown
                            THEN SaveFailed([screen EXCEPT !.isLoading = TRUE,
                                                           !.flows[f].own = TRUE],
                                            f, "none")
                            ELSE [screen EXCEPT !.isLoading = TRUE,
                                                !.flows[f] = [@ EXCEPT !.pc = "calling",
                                                                       !.own = TRUE,
                                                                       !.newEntry = c.entry]]
    /\ UNCHANGED <<storage, last, tasks, others>>

\* The backend answers the first getItem of the saveEntry that
\* saveTravelEntry f awaits, and saveEntry runs up to its await of setItem.
SaveEntryReads(f) ==
    /\ Opened
    /\ screen.flows[f].pc = "calling"
    /\ \E now \in NowValues, rnd \in RandomSuffixes, faults \in FaultPlans :
        \E t \in {saveEntryStart(0, Backend, screen.flows[f].newEntry, now, rnd, faults)} :
            /\ Len(t.updatedEntries) <= MaxEntries
            /\ tasks' = [tasks EXCEPT ![f] = t]
    /\ screen' = [screen EXCEPT !.flows[f].pc = "saving"]
    /\ UNCHANGED <<storage, last, others>>

\* saveEntry returns into saveTravelEntry f: false is thrown to the catch,
\* which alerts and resets isLoading; true goes on to handleSuccessfulSave
\* and the first await of sendNotification.
SaveEntryReturns(f) ==
    /\ Opened
    /\ screen.flows[f].pc = "saving"
    /\ tasks[f].pc = "done"
    /\ screen' =
        IF tasks[f].ret
        THEN [screen EXCEPT !.flows[f] = [@ EXCEPT !.pc = "notifying", !.saved = "true",
                                                   !.newEntry = Undefined]]
        ELSE SaveFailed(screen, f, "false")
    /\ tasks' = [tasks EXCEPT ![f] = IdleAfter(tasks[f].calls)]
    /\ UNCHANGED <<storage, last, others>>

\* sendNotification has returned to saveTravelEntry f, with the notification
\* scheduled or not: the rest of handleSuccessfulSave.  navigate('Home')
\* removes the add-entry screen that is shown.
Finished(sc, f, scheduled) ==
    LET done == [sc EXCEPT !.flows[f] = [@ EXCEPT !.pc = "ended", !.own = FALSE,
                                                  !.notified = scheduled,
                                                  !.navigated = TRUE]]
        set == IF sc.flows[f].own
               THEN [done EXCEPT !.hasChanges = FALSE, !.isLoading = FALSE]
               ELSE done
    IN  IF sc.pc = "form" THEN ScreenRemoved(set) ELSE set

\* sendNotification up to scheduleNotificationAsync: the permission requests
\* are answered, or one of them throws, which the catch logs.
SendNotification(f) ==
    /\ Opened
    /\ screen.flows[f].pc = "notifying"
    /\ \E thrown \in BOOLEAN :
        screen' = IF thrown THEN Finished(screen, f, FALSE)
                  ELSE [screen EXCEPT !.flows[f].pc = "scheduling"]
    /\ UNCHANGED <<storage, last, tasks, others>>

\* scheduleNotificationAsync is answered, the notification scheduled or an
\* error caught and logged, and handleSuccessfulSave goes on.
FinishSave(f) ==
    /\ Opened
    /\ screen.flows[f].pc = "scheduling"
    /\ \E scheduled \in BOOLEAN : screen' = Finished(screen, f, scheduled)
    /\ UNCHANGED <<storage, last, tasks, others>>

NextScreen ==
    \/ OpenScreen
    \/ GoBack
    \/ TakePicture
    \/ PictureNotTaken
    \/ PictureTaken
    \/ PositionFound
    \/ PositionFailed
    \/ Geocoded
    \/ EditTitle
    \/ EditNotes
    \/ PressSave
    \/ \E f \in FlowIds : SaveEntryReads(f)
    \/ \E f \in FlowIds : Write(f)
    \/ \E f \in FlowIds : Verify(f)
    \/ \E f \in FlowIds : SaveEntryReturns(f)
    \/ \E f \in FlowIds : SendNotification(f)
    \/ \E f \in FlowIds : FinishSave(f)

SpecScreen == InitScreen /\ [][NextScreen]_vars

-----------------------------------------------------------------------------
(* Properties *)

\* The collection as a fault-free getEntries() reads it from a stored string.
Collection(raw) == getEntries(raw, FALSE).val

\* Every entry the JSON array under the key holds has its own id.
UniqueIds(items) ==
    \A i, j \in 1..Len(items) : i # j => items[i].id # items[j].id

SortedDesc(list) ==
    \A i \in 1..(Len(list) - 1) : list[i].createdAt.n >= list[i + 1].createdAt.n

\* The last call was a saveEntry of a valid entry on a fault-free backend.
SavedValid ==
    /\ last.op = "saveEntry"
    /\ last.faults = NoFaults
    /\ last.arg \in EntryInputs

\* C1 (as claimed): a fault-free saveEntry(e) of a valid e whose id is not in
\* the collection returns true, and getEntryById(e.id) then returns an entry
\* equal to e in every field.
C1_RoundTrip ==
    (SavedValid /\ ~SomeId(Collection(last.pre), last.arg.id))
        => /\ last.ret
           /\ getEntryById(storage, last.arg.id, NoFaults).found = last.arg

\* C2 (as claimed): the persisted collection never holds two entries with the
\* same id.
C2_UniqueIds == UniqueIds(storage.items)

\* C3 (as claimed): a fault-free saveEntry of a valid entry whose id is in the
\* collection stores the entry under another id than the requested one, the
\* collection grows by one, and the entry that had the requested id is still
\* there, equal in every field.
C3_CollisionRegeneration ==
    (SavedValid /\ SomeId(Collection(last.pre), last.arg.id))
        => /\ last.saved.id # last.arg.id
           /\ Len(Collection(storage)) = Len(Collection(last.pre)) + 1
           /\ \A i \in 1..Len(Collection(last.pre)) :
                \E j \in 1..Len(Collection(storage)) :
                    Collection(storage)[j] = Collection(last.pre)[i]

\* C4: getEntries() returns the entries by createdAt descending, whatever the
\* stored string holds and in whatever order it holds them.
C4_SortOrder ==
    /\ SortedDesc(Collection(storage))
    /\ last.op = "getEntries" => SortedDesc(last.list)

\* getEntries() returned two entries that the stored array holds the other way
\* round.
C4_Witness ==
    /\ last.op = "getEntries"
    /\ Len(last.list) = 2
    /\ storage.items[1].createdAt.n < storage.items[2].createdAt.n
    /\ last.list[1] = storage.items[2]

\* The call's faulting backend request was one the call issued.
FaultHit == \E i \in last.faults : i <= last.reads + last.writes

\* The failure sentinel of the last call's operation was returned.
ReturnedSentinel ==
    /\ ~last.thrown
    /\ last.op \in {"saveEntry", "updateEntry", "removeEntry", "clearAllEntries"}
          => ~last.ret
    /\ last.op = "getEntries" => last.list = <<>>
    /\ last.op = "getEntryById" => last.found = Null
    /\ last.op = "getEntryCount" => last.count = 0

\* C6 (as claimed): a call one of whose backend requests rejects ends with the
\* failure sentinel of its operation, never with an uncaught error.
C6_FaultGivesSentinel == (last.op # "none" /\ FaultHit) => ReturnedSentinel

\* C7: saveEntry and updateEntry of a value that fails validateEntry return
\* false without any backend read or write; the stored string is unchanged.
C7_ValidationPrecondition ==
    (last.op \in {"saveEntry", "updateEntry"} /\ last.arg \in InvalidInputs)
        => /\ ~last.ret
           /\ ~last.thrown
           /\ last.reads = 0
           /\ last.writes = 0
           /\ storage = last.pre

\* Both calls were refused an invalid value while the store held entries.
C7_Witness ==
    /\ last.op \in {"saveEntry", "updateEntry"}
    /\ last.arg \in InvalidInputs
    /\ ~last.ret
    /\ Len(Collection(storage)) > 0

\* The id of the last removeEntry names no entry of the collection, or is no
\* non-empty string.
MissingId ==
    \/ Falsy(last.id)
    \/ TypeOf(last.id) # "string"
    \/ \A i \in 1..Len(Collection(last.pre)) : Collection(last.pre)[i].id # last.id

\* C8: removeEntry(id) for an id no entry has, or an empty or non-string id,
\* returns false and writes nothing: the stored string is the same.
C8_RemoveMissing ==
    (last.op = "removeEntry" /\ MissingId)
        => /\ ~last.ret
           /\ last.writes = 0
           /\ storage = last.pre

\* removeEntry of an absent id on a store that holds other entries.
C8_Witness ==
    /\ last.op = "removeEntry"
    /\ last.id = Str("zz")
    /\ ~last.ret
    /\ Len(Collection(storage)) = 2

\* C9: updateEntry(e) for a valid e whose id is not in the collection returns
\* false, inserts nothing and leaves the stored string unchanged.
C9_UpdateNotFound ==
    (/\ last.op = "updateEntry"
     /\ last.arg \in EntryInputs
     /\ \A i \in 1..Len(Collection(last.pre)) : Collection(last.pre)[i].id # last.arg.id)
        => /\ ~last.ret
           /\ last.writes = 0
           /\ storage = last.pre
           /\ ~SomeId(Collection(storage), last.arg.id)

\* updateEntry of an entry that is not stored, on a store holding another one.
C9_Witness ==
    /\ last.op = "updateEntry"
    /\ last.arg \in EntryInputs
    /\ last.arg.id = Str("c")
    /\ ~last.ret
    /\ last.reads = 1
    /\ Len(Collection(storage)) > 0
    /\ \A i \in 1..Len(Collection(storage)) : Collection(storage)[i].id # Str("c")

\* C10: on a fault-free backend clearAllEntries() returns true from any stored
\* value, readable or not, and getEntryCount() is then 0 and getEntries()
\* empty.
C10_ClearEmpties ==
    (last.op = "clearAllEntries" /\ last.faults = NoFaults)
        => /\ last.ret
           /\ getEntryCount(storage, NoFaults).count = 0
           /\ getEntriesCall(storage, NoFaults).list = <<>>

\* clearAllEntries() ran on a store that held entries.
C10_Witness ==
    /\ last.op = "clearAllEntries"
    /\ last.faults = NoFaults
    /\ last.pre.kind = "array"
    /\ Len(Collection(last.pre)) = 2
    /\ last.ret

\* Two saveEntry calls in flight or just returned whose first reads saw the
\* same stored string and that have both written.
BothWrote(p, q) ==
    /\ p # q
    /\ tasks[p].pc \in {"verify", "done"}
    /\ tasks[q].pc \in {"verify", "done"}
    /\ tasks[p].op = "saveEntry"
    /\ tasks[q].op = "saveEntry"
    /\ tasks[p].updatedEntries # <<>>
    /\ tasks[q].updatedEntries # <<>>
    /\ tasks[p].pre = tasks[q].pre

\* C5: nothing serialises the read-write-reread of overlapping calls: when
\* two saveEntry calls have read the same starting collection and both have
\* written, the store holds the array of the later writer alone, that is the
\* starting collection and one of the two entries, whatever the calls return.
C5_LostUpdate ==
    \A p, q \in TaskIds :
        BothWrote(p, q)
            => /\ \E w \in {p, q} : storage = JSONstringify(tasks[w].updatedEntries)
               /\ Len(storage.items) = Len(Collection(tasks[p].pre)) + 1

\* Both calls returned true, the first after its verification passed, and the
\* store holds the second entry only.
C5_Witness ==
    /\ BothWrote(1, 2)
    /\ tasks[1].pc = "done" /\ tasks[1].ret
    /\ tasks[2].pc = "done" /\ tasks[2].ret
    /\ tasks[1].entry.id # tasks[2].entry.id
    /\ ~SomeId(Collection(storage), tasks[1].entry.id)
    /\ SomeId(Collection(storage), tasks[2].entry.id)

-----------------------------------------------------------------------------
(* Recovery, verification and the effect of the mutations *)

\* The stored string is not the JSON text of an array of valid entries.
Unreadable(raw) ==
    \/ raw.kind \in {"empty", "garbage", "nonarray"}
    \/ raw.kind = "array" /\ \E i \in 1..Len(raw.items) : ~validateEntry(raw.items[i])

\* C11: when the value under the key is absent, is no JSON, is no array or is
\* an array with an element that fails validateEntry, getEntries() returns
\* the empty list, not an error, and the value under the key stays as it was.
C11_CorruptedRecovery ==
    (last.op = "getEntries" /\ (last.pre = Absent \/ Unreadable(last.pre)))
        => /\ ~last.thrown
           /\ last.list = <<>>
           /\ storage = last.pre

\* getEntries() ran on the stored array [{"id": 123}].
C11_Witness ==
    /\ last.op = "getEntries"
    /\ last.faults = NoFaults
    /\ last.pre.kind = "array"
    /\ Len(last.pre.items) = 1
    /\ last.pre.items[1].id = Num(123)
    /\ last.list = <<>>
    /\ storage = last.pre

\* C14 (as claimed): every entry of the persisted collection has a non-empty
\* imageUri and a non-empty address.
C14_NonEmptyFields ==
    \A i \in 1..Len(Collection(storage)) :
        /\ Collection(storage)[i].imageUri # Str("")
        /\ Collection(storage)[i].address # Str("")

Mutating == {"saveEntry", "updateEntry", "removeEntry", "clearAllEntries"}

\* The last call issued its write and the backend carried it out.
Wrote ==
    /\ last.op \in Mutating
    /\ last.writes = 1
    /\ WriteIndex(last.op) \notin last.faults

\* The backend answered the re-read of the last call: the getItem inside the
\* getEntries() that follows the write was not rejected.
RereadAnswered == RereadIndex(last.op) \notin last.faults

\* The list the re-read of the last call made of the backend's answer.
Reread == getEntries(storage, FALSE).val

\* The post-condition of the last call's operation, on the list it re-read.
PostCondition ==
    CASE last.op = "saveEntry" ->
            \E i \in 1..Len(Reread) : Reread[i].id = last.saved.id
      [] last.op = "updateEntry" ->
            \E i \in 1..Len(Reread) :
                /\ Reread[i].id = last.arg.id
                /\ Reread[i].createdAt = last.arg.createdAt
      [] last.op = "removeEntry" ->
            \A i \in 1..Len(Reread) : Reread[i].id # last.id
      [] last.op = "clearAllEntries" -> Len(Reread) = 0

\* C15 (as claimed): a mutating call returns true only after its write and a
\* backend re-read that was answered and shows the post-condition of the
\* operation; when the write went through and no answered re-read shows the
\* post-condition, the call returns false.
C15_SelfVerification ==
    /\ (last.op \in Mutating /\ last.ret)
          => /\ Wrote
             /\ last.reads = RereadIndex(last.op) - 1
             /\ RereadAnswered
             /\ PostCondition
    /\ (Wrote /\ ~(RereadAnswered /\ PostCondition)) => ~last.ret

\* The last call was a fault-free updateEntry of a valid entry whose id is in
\* the collection.
UpdatedPresent ==
    /\ last.op = "updateEntry"
    /\ last.faults = NoFaults
    /\ last.arg \in EntryInputs
    /\ SomeId(Collection(last.pre), last.arg.id)

\* The entries of a list that have another id than id, in the order of the list.
Others(list, id) == SelectSeq(list, LAMBDA e : e.id # id)

\* C17 (as claimed): a fault-free updateEntry(e) of a valid e whose id is in
\* the collection returns true; getEntryById(e.id) then equals e in every
\* field, the collection has as many entries as before and the entries with
\* another id are unchanged.
C17_UpdateReplaces ==
    UpdatedPresent
        => /\ last.ret
           /\ getEntryById(storage, last.arg.id, NoFaults).found = last.arg
           /\ Len(Collection(storage)) = Len(Collection(last.pre))
           /\ Others(Collection(storage), last.arg.id)
                = Others(Collection(last.pre), last.arg.id)

\* The last call was a fault-free removeEntry of an id the collection holds.
RemovedPresent ==
    /\ last.op = "removeEntry"
    /\ last.faults = NoFaults
    /\ SomeId(Collection(last.pre), last.id)

\* C18: a fault-free removeEntry(id) of an id in the collection returns true;
\* afterwards the persisted collection holds no entry with that id and holds
\* every entry with another id, unchanged.
C18_RemovePresent ==
    RemovedPresent
        => /\ last.ret
           /\ \A i \in 1..Len(Collection(storage)) : Collection(storage)[i].id # last.id
           /\ Collection(storage) = Others(Collection(last.pre), last.id)

\* removeEntry took one of two entries out and the other one is still there.
C18_Witness ==
    /\ RemovedPresent
    /\ last.ret
    /\ Len(Collection(last.pre)) = 2
    /\ Len(Collection(storage)) = 1
    /\ Collection(storage)[1].id # last.id

\* C19 (as claimed): whenever saveEntry returns false the stored string is the
\* same as before the call.
C19_FailedSaveUnchanged ==
    (last.op = "saveEntry" /\ ~last.ret) => storage = last.pre

\* C19 (amended): a saveEntry that returns false before its write, or whose
\* write the backend rejects, leaves the stored string as it was; one that
\* returns false because the verification failed has replaced the stored
\* string by the array it wrote.
C19_FailedSaveAmended ==
    (last.op = "saveEntry" /\ ~last.ret)
        => IF Wrote
           THEN storage = JSONstringify(
                    Append(getEntries(last.pre, 1 \in last.faults).val, last.saved))
           ELSE storage = last.pre

\* A saveEntry whose re-read was rejected returned false on a store that held
\* an entry, and the store now holds two.
C19_Witness ==
    /\ last.op = "saveEntry"
    /\ last.faults = {3}
    /\ ~last.ret
    /\ Len(Collection(last.pre)) = 1
    /\ Len(Collection(storage)) = 2

\* The last call was a saveEntry of a valid entry on a stored string that
\* getEntries() cannot read.
SavedOnUnreadable ==
    /\ last.op = "saveEntry"
    /\ last.arg \in EntryInputs
    /\ Unreadable(last.pre)

\* C20 (as claimed): a saveEntry of a valid entry on an unreadable stored
\* string does not overwrite it.
C20_KeepsUnreadable == SavedOnUnreadable => storage = last.pre

\* C20 (amended): on an unreadable stored string saveEntry of a valid entry
\* takes the collection to be empty: unless the backend rejects the write,
\* the stored string is replaced by an array that holds the new entry alone.
C20_OverwritesUnreadable ==
    SavedOnUnreadable
        => IF 2 \in last.faults
           THEN storage = last.pre
           ELSE storage = JSONstringify(<<last.saved>>)

\* saveEntry returned true on text that was no JSON; the text is gone.
C20_Witness ==
    /\ SavedOnUnreadable
    /\ last.pre.kind = "garbage"
    /\ last.ret
    /\ storage.kind = "array"
    /\ Len(storage.items) = 1

-----------------------------------------------------------------------------
(* The validator's contract *)

\* The value carries none of the optional fields.
NoOptional(v) ==
    v.kind = "object"
        => /\ v.title = Undefined
           /\ v.notes = Undefined
           /\ v.tags = Undefined
           /\ v.weather = Undefined

IsString(v) == v.kind = "string"

\* A number in the sense of typeof: any number, NaN and the infinities too.
IsNumber(v) == v.kind \in {"number"} \cup NonFinite

\* A non-null record whose id, imageUri and address are strings and whose
\* latitude, longitude and createdAt are numbers.
WellTypedRequired(v) ==
    /\ v.kind = "object"
    /\ IsString(v.id) /\ IsString(v.imageUri) /\ IsString(v.address)
    /\ IsNumber(v.latitude) /\ IsNumber(v.longitude) /\ IsNumber(v.createdAt)

\* C12: for a value with no optional field, validateEntry returns true
\* exactly when the value is a non-null record with string id, imageUri and
\* address and number latitude, longitude and createdAt; the size of a number
\* plays no part.
C12_RequiredFields ==
    (last.op = "validateEntry" /\ NoOptional(last.arg))
        => (last.ret <=> WellTypedRequired(last.arg))

\* validateEntry accepted a record whose latitude is 200.
C12_Witness ==
    /\ last.op = "validateEntry"
    /\ last.arg.kind = "object"
    /\ NoOptional(last.arg)
    /\ last.arg.latitude = Num(200)
    /\ last.ret

Present(v) == v.kind # "undefined"

\* C13 (as claimed): a value with well-typed required fields is rejected when
\* title or notes is present and no string, tags is present and no sequence,
\* or weather is present and no record.
C13_OptionalFields ==
    (/\ last.op = "validateEntry"
     /\ WellTypedRequired(last.arg)
     /\ \/ Present(last.arg.title) /\ ~IsString(last.arg.title)
        \/ Present(last.arg.notes) /\ ~IsString(last.arg.notes)
        \/ Present(last.arg.tags) /\ last.arg.tags.kind # "array"
        \/ Present(last.arg.weather) /\ last.arg.weather.kind # "object")
        => ~last.ret

-----------------------------------------------------------------------------
(* The order of the stored array *)

\* All of the stored array but its last element.
Front == SubSeq(storage.items, 1, Len(storage.items) - 1)

\* The elements of a that occur in b, in the order of a.
Among(a, b) == SelectSeq(a, LAMBDA e : \E k \in 1..Len(b) : b[k] = e)

\* C16 (as claimed): after a successful saveEntry the new entry is the last
\* element of the stored array and the elements stored before are in the
\* order they had, that is the order in which they were saved.
C16_InsertionOrder ==
    (last.op = "saveEntry" /\ last.ret)
        => /\ storage.items[Len(storage.items)] = StringifyItem(last.saved)
           /\ Among(last.pre.items, Front) = Among(Front, last.pre.items)

\* C16 (amended): after a successful saveEntry the stored array is the
\* collection as the call read it, by createdAt descending, followed by the
\* new entry.
C16_SortedThenNew ==
    (last.op = "saveEntry" /\ last.ret)
        => /\ storage.items[Len(storage.items)] = StringifyItem(last.saved)
           /\ Front = getEntries(last.pre, 1 \in last.faults).val
           /\ SortedDesc(Front)

\* A third entry was saved behind two that were stored oldest first: they are
\* now stored newest first, and the array as a whole is not sorted.
C16_Witness ==
    /\ last.op = "saveEntry"
    /\ last.ret
    /\ last.faults = NoFaults
    /\ Len(last.pre.items) = 2
    /\ last.pre.items[1].createdAt.n < last.pre.items[2].createdAt.n
    /\ Len(storage.items) = 3
    /\ storage.items[1] = last.pre.items[2]
    /\ storage.items[2] = last.pre.items[1]
    /\ storage.items[3].createdAt.n > storage.items[2].createdAt.n

-----------------------------------------------------------------------------
(* Removal under interleaving *)

\* Call p is a removeEntry that has returned true.
Removed(p) ==
    /\ tasks[p].pc = "done"
    /\ tasks[p].op = "removeEntry"
    /\ tasks[p].ret

\* C21 (as claimed): once removeEntry(id) has returned true, an entry with
\* that id comes back into the persisted collection only by the write of a
\* saveEntry or updateEntry call that read the collection without it and
\* stores an entry of that id itself; a call that was in flight before the
\* removal's write does not bring it back.
C21_RemovalPermanent ==
    [][\A p \in TaskIds :
          (/\ Removed(p)
           /\ ~SomeId(Collection(storage), tasks[p].id)
           /\ SomeId(Collection(storage'), tasks[p].id))
              => \E q \in TaskIds \ {p} :
                    /\ tasks[q].pc = "write"
                    /\ tasks'[q].pc = "verify"
                    /\ tasks[q].op \in {"saveEntry", "updateEntry"}
                    /\ tasks[q].entry.id = tasks[p].id
                    /\ ~SomeId(Collection(tasks[q].pre), tasks[p].id)]_vars

\* Call p is a removeEntry that has returned true; call q is a saveEntry that
\* read the same stored string as p, stores its entry under an id that string
\* did not hold, and has written after the removal: its entry is in the
\* collection.
StaleSaveWrote(p, q) ==
    /\ p # q
    /\ Removed(p)
    /\ tasks[q].pc \in {"verify", "done"}
    /\ tasks[q].op = "saveEntry"
    /\ tasks[q].updatedEntries # <<>>
    /\ tasks[q].pre = tasks[p].pre
    /\ ~SomeId(Collection(tasks[q].pre), tasks[q].entry.id)
    /\ SomeId(Collection(storage), tasks[q].entry.id)

\* C21 (amended): a removal is undone by a saveEntry that was in flight: when
\* a saveEntry that read the collection before the removal's write writes
\* after removeEntry(id) has returned true, the removed entry is in the
\* persisted collection again.
C21_StaleSaveRestores ==
    \A p, q \in TaskIds :
        StaleSaveWrote(p, q) => SomeId(Collection(storage), tasks[p].id)

\* removeEntry("a") and a saveEntry of another entry have both returned true,
\* and the collection holds "a" and the other entry.
C21_Witness ==
    /\ StaleSaveWrote(1, 2)
    /\ tasks[2].pc = "done" /\ tasks[2].ret
    /\ tasks[1].id = Str("a")
    /\ tasks[2].entry.id = Str("c")
    /\ Len(Collection(storage)) = 2

-----------------------------------------------------------------------------
(* Size accounting *)

\* getEntryCount() on a fault-free backend.
CountOf(raw) == getEntryCount(raw, NoFaults).count

\* By how much a call of the operation that returns ret is to change the count.
ExpectedChange(op, ret) ==
    IF ~ret THEN 0
    ELSE CASE op = "saveEntry" -> 1
           [] op = "removeEntry" -> -1
           [] op = "updateEntry" -> 0

\* C22 (as claimed): on a fault-free backend and a readable collection, a
\* saveEntry that returns true raises getEntryCount() by 1, a removeEntry
\* that returns true lowers it by 1, an updateEntry that returns true leaves
\* it, and each of them returning false leaves it.
C22_SizeAccounting ==
    (/\ last.op \in {"saveEntry", "removeEntry", "updateEntry"}
     /\ last.faults = NoFaults
     /\ ~Unreadable(last.pre))
        => CountOf(storage) = CountOf(last.pre) + ExpectedChange(last.op, last.ret)

-----------------------------------------------------------------------------
(* Key isolation *)

ReadOnlyOps == {"getEntries", "getEntryById", "getEntryCount", "debugStorage"}

\* C23: every step of a store call leaves the values under the theme,
\* first-launch and app-open-counter keys as they were, those of
\* clearAllEntries included, and a read-only call leaves the value under the
\* entries key as well.  The steps of the store calls are those that change
\* the call in flight or the result of the caller.
C23_KeyIsolation ==
    [][/\ (tasks'[Caller] # tasks[Caller] \/ last' # last) => others' = others
       /\ (last' # last /\ last'.op \in ReadOnlyOps) => storage' = storage]_vars

\* clearAllEntries() removed a stored collection while the three other keys
\* held values; they still hold them.
C23_Witness ==
    /\ last.op = "clearAllEntries"
    /\ last.ret
    /\ Len(Collection(last.backend[EntriesKey])) > 0
    /\ storage = Absent
    /\ others[ThemeKey] = Str("dark")
    /\ others[FirstLaunchKey] = Str("false")
    /\ others[OpenedCountKey] = Str("2")

-----------------------------------------------------------------------------
(* The save flow of the add-entry screen *)

\* A text of white space only.
Blank(t) == \A i \in 1..Len(t) : t[i] \in WhiteSpace

\* The entry handed to saveEntry was made from a form with an image, an
\* address, a location and a title that is not blank.
FromCompleteForm(entry) ==
    /\ IsString(entry.imageUri) /\ entry.imageUri # Str("")
    /\ IsString(entry.address) /\ entry.address # Str("")
    /\ IsNumber(entry.latitude) /\ IsNumber(entry.longitude)
    /\ IsString(entry.title) /\ ~Blank(entry.title.s)

\* A saveTravelEntry is under way.
InFlight(flow) == flow.pc \in {"calling", "saving", "notifying", "scheduling"}

\* The save flows at rest and under way: saveEntry is awaited or in flight
\* only for an entry made from a complete form; the notification and the
\* navigation to Home of handleSuccessfulSave are there only once saveEntry
\* returned true; after it returned false there is neither, the error alert
\* has been shown, and isLoading is true in the screen shown only where a
\* location lookup started by a new picture or another save of the screen is
\* under way.
SaveFlowState ==
    screen.pc # "closed"
        => \A f \in FlowIds :
            /\ screen.flows[f].pc \in {"calling", "saving"}
                  => FromCompleteForm(screen.flows[f].newEntry)
            /\ tasks[f].pc # "idle"
                  => /\ screen.flows[f].pc = "saving"
                     /\ tasks[f].op = "saveEntry"
                     /\ tasks[f].arg = screen.flows[f].newEntry
            /\ (\/ screen.flows[f].notified
                \/ screen.flows[f].navigated
                \/ screen.flows[f].pc \in {"notifying", "scheduling"})
                  => screen.flows[f].saved = "true"
            /\ screen.flows[f].saved = "false"
                  => /\ ~screen.flows[f].notified
                     /\ ~screen.flows[f].navigated
                     /\ "Save Error" \in screen.alerts
                     /\ screen.flows[f].pc = "ended"
                     /\ (screen.pc = "form" /\ screen.isLoading)
                           => \/ screen.camera.locating + screen.camera.geocoding > 0
                              \/ \E g \in FlowIds :
                                    screen.flows[g].own /\ InFlight(screen.flows[g])

\* The step in which the screen invokes saveEntry: the form that is shown has
\* an image, an address, a location and a title that is not blank, and the
\* entry is made of them.
SaveFlowInvoke ==
    \A f \in FlowIds :
        (screen.pc # "closed" /\ screen.flows[f].pc = "idle"
            /\ screen'.flows[f].pc = "calling")
            => /\ screen.pc = "form"
               /\ ~Falsy(screen.imageUri)
               /\ ~Falsy(screen.address)
               /\ ~Falsy(screen.location)
               /\ ~Blank(screen.title)
               /\ screen'.flows[f].newEntry.imageUri = screen.imageUri
               /\ screen'.flows[f].newEntry.address = screen.address
               /\ screen'.flows[f].newEntry.latitude = screen.location.latitude
               /\ screen'.flows[f].newEntry.longitude = screen.location.longitude

\* The step in which saveEntry returns to the screen: the call had completed,
\* and a return of false shows the error alert and sets isLoading of the
\* screen that made the call to false, with nothing notified and no
\* navigation, while a return of true goes on to the notification.
SaveFlowReturn ==
    \A f \in FlowIds :
        (screen.pc # "closed" /\ screen.flows[f].pc = "saving"
            /\ screen'.flows[f].pc # "saving")
            => /\ tasks[f].pc = "done"
               /\ IF tasks[f].ret
                  THEN /\ screen'.flows[f].pc = "notifying"
                       /\ screen'.flows[f].saved = "true"
                  ELSE /\ screen'.flows[f].pc = "ended"
                       /\ screen'.flows[f].saved = "false"
                       /\ "Save Error" \in screen'.alerts
                       /\ screen.flows[f].own
                             => screen'.pc = "form" /\ ~screen'.isLoading
                       /\ ~screen'.flows[f].notified
                       /\ ~screen'.flows[f].navigated

\* C24: the screen invokes saveEntry only on a form with image, address,
\* location and non-blank title; the notification and the navigation to Home
\* come only after saveEntry returned true; when it returns false there is
\* no notification and no navigation, the error alert is shown and isLoading
\* is reset to false.
C24_SaveFlow ==
    /\ []SaveFlowState
    /\ [][SaveFlowInvoke]_vars
    /\ [][SaveFlowReturn]_vars

\* saveEntry returned false to the screen that is shown, with the entry it
\* was handed in the store.
C24_Witness ==
    /\ screen.pc = "form"
    /\ screen.flows[1].pc = "ended"
    /\ screen.flows[1].saved = "false"
    /\ "Save Error" \in screen.alerts
    /\ ~screen.isLoading
    /\ ~Falsy(screen.imageUri)
    /\ Len(storage.items) > 0

====
